---------------------------- MODULE Spec2Model ----------------------------
(***************************************************************************)
(* A model of scraper.py (ScraperSummarizer, main) and summarizer.py       *)
(* (summarize_text).                                                       *)
(*                                                                         *)
(* Python strings are sequences of one-character strings.  The browser     *)
(* driver, BeautifulSoup and the completion API are the environment: each  *)
(* call to them either returns or raises, chosen nondeterministically.     *)
(***************************************************************************)
EXTENDS Integers, Sequences, FiniteSets, TLC

VARIABLES
    url,             \* self.url: None or a string
    arg,             \* the argument of the last set_url call
    renormalized,    \* how many times in a row set_url was given its own result
    driver,          \* self.driver: None or the id of a browser session
    nextSession,     \* number of browser sessions created so far
    quitCalls,       \* session id -> number of quit() invocations on it
    pc,              \* position of the call in progress ("idle": none)
    call,            \* the top-level call in progress or last made
    entryDriver,     \* self.driver when the last summarize() was entered
    retval,          \* outcome computed by the try block, pending the finally
    result,          \* outcome of the last summarize() as its caller sees it
    events,          \* external calls made by the call in progress, in order
    apiCalls,        \* completion-API requests of the call in progress
    stripped_text,   \* strip_html_tags(self.driver.page_source)
    reduced_content, \* the text handed to summarize_text
    language,        \* summarize_text's local `language`
    summary          \* self.summary

vars == <<url, arg, renormalized, driver, nextSession, quitCalls, pc, call,
          entryDriver, retval, result, events, apiCalls, stripped_text,
          reduced_content, language, summary>>

\* None as the value of a string-valued attribute, and of self.driver
None == <<"None">>
NoDriver == 0

-----------------------------------------------------------------------------
(* Bounds of the model.                                                    *)

MaxSessions == 2     \* Driver() succeeds at most this many times
MaxPathLen == 1      \* longest path of an enumerated raw URL
MaxQueryLen == 2     \* longest query of an enumerated raw URL
MaxRenormalize == 1  \* how often set_url is re-applied to its own result
MaxTextLen == 5      \* longest enumerated tag-stripped page text
\* number_of_words is 5000 in scraper.py line 175; the model scales it down
\* so that page texts with more words than the limit can be enumerated.
number_of_words == 2

-----------------------------------------------------------------------------
(* Python str helpers.                                                     *)

Whitespace == {" ", "\t", "\n", "\r"}

Min(a, b) == IF a <= b THEN a ELSE b

\* F applied to the value of v, which is computed once
Bind(v, F(_)) == CHOOSE r \in {F(x) : x \in {v}} : TRUE

\* s[i:] with a 1-based i
From(s, i) == SubSeq(s, i, Len(s))

\* s[:n]
Take(s, n) == SubSeq(s, 1, Min(n, Len(s)))

\* 1-based str.find(c, start): 0 when c does not occur at or after start
Find(s, c, start) ==
    LET hits == {i \in start..Len(s) : s[i] = c}
    IN  IF hits = {} THEN 0 ELSE CHOOSE i \in hits : \A j \in hits : i <= j

\* 1-based str.rfind(c): 0 when c does not occur
RFind(s, c) ==
    LET hits == {i \in 1..Len(s) : s[i] = c}
    IN  IF hits = {} THEN 0 ELSE CHOOSE i \in hits : \A j \in hits : i >= j

Contains(s, c) == \E i \in 1..Len(s) : s[i] = c

StartsWith(s, p) == Len(s) >= Len(p) /\ SubSeq(s, 1, Len(p)) = p

\* str.lstrip(chars)
LStrip(s, chars) ==
    LET keep == {i \in 1..Len(s) : s[i] \notin chars}
    IN  IF keep = {} THEN <<>>
        ELSE From(s, CHOOSE i \in keep : \A j \in keep : i <= j)

\* str.rstrip(chars)
RStrip(s, chars) ==
    LET keep == {i \in 1..Len(s) : s[i] \notin chars}
    IN  IF keep = {} THEN <<>>
        ELSE SubSeq(s, 1, CHOOSE i \in keep : \A j \in keep : i >= j)

\* str.strip()
Strip(s) == RStrip(LStrip(s, Whitespace), Whitespace)

\* str.replace(c, "")
Remove(s, c) == SelectSeq(s, LAMBDA x : x # c)

RECURSIVE ConcatFrom(_, _)
ConcatFrom(parts, i) ==
    IF i > Len(parts) THEN <<>> ELSE parts[i] \o ConcatFrom(parts, i + 1)

\* "".join(parts)
Concat(parts) == Bind(parts, LAMBDA ps : ConcatFrom(ps, 1))

\* the 1-based place of the first whitespace character of t, Len(t) + 1
\* when it has none
WordEnd(t) ==
    LET ws == {i \in 1..Len(t) : t[i] \in Whitespace}
    IN  IF ws = {} THEN Len(t) + 1
        ELSE CHOOSE i \in ws : \A j \in ws : i <= j

RECURSIVE Split(_)
\* str.split(): the maximal runs of non-whitespace characters, in order
Split(s) ==
    Bind(LStrip(s, Whitespace), LAMBDA t :
        IF t = <<>> THEN <<>>
        ELSE Bind(WordEnd(t), LAMBDA end :
                 <<SubSeq(t, 1, end - 1)>> \o Split(From(t, end))))

RECURSIVE JoinFrom(_, _)
JoinFrom(words, i) ==
    IF i > Len(words) THEN <<>>
    ELSE IF i = Len(words) THEN words[i]
    ELSE words[i] \o <<" ">> \o JoinFrom(words, i + 1)

\* " ".join(words)
Join(words) == Bind(words, LAMBDA ws : JoinFrom(ws, 1))

RECURSIVE Strings(_, _)
\* the strings over alphabet of length at most n
Strings(alphabet, n) ==
    IF n = 0 THEN {<<>>}
    ELSE Bind(Strings(alphabet, n - 1), LAMBDA shorter :
             shorter \cup {Append(x, c) : x \in shorter, c \in alphabet})

-----------------------------------------------------------------------------
(* urllib.parse as set_url uses it.                                        *)

UpperCase == <<"A","B","C","D","E","F","G","H","I","J","K","L","M",
               "N","O","P","Q","R","S","T","U","V","W","X","Y","Z">>
LowerCase == <<"a","b","c","d","e","f","g","h","i","j","k","l","m",
               "n","o","p","q","r","s","t","u","v","w","x","y","z">>
Digits == {"0","1","2","3","4","5","6","7","8","9"}
Letters == {UpperCase[i] : i \in 1..26} \cup {LowerCase[i] : i \in 1..26}

\* str.lower() of one character
LowerChar(c) ==
    IF \E i \in 1..26 : UpperCase[i] = c
    THEN LowerCase[CHOOSE i \in 1..26 : UpperCase[i] = c]
    ELSE c

Lower(s) == [i \in 1..Len(s) |-> LowerChar(s[i])]

\* urllib.parse.scheme_chars
scheme_chars == Letters \cup Digits \cup {"+", "-", "."}

\* the members of urllib.parse.uses_params and uses_netloc that the
\* enumerated URLs can carry as a scheme
uses_params == {<<>>, <<"h","t","t","p">>}
uses_netloc == {<<>>, <<"h","t","t","p">>}

\* urllib.parse._WHATWG_C0_CONTROL_OR_SPACE and _UNSAFE_URL_BYTES_TO_REMOVE
C0ControlOrSpace == {" ", "\t", "\n", "\r"}
UnsafeUrlBytes == {"\t", "\r", "\n"}

\* urllib.parse._ALWAYS_SAFE
AlwaysSafe == Letters \cup Digits \cup {"_", ".", "-", "~"}

\* the two hexadecimal digits of an ASCII character's code
HexOf(c) ==
    CASE c = " "  -> <<"2","0">>
      [] c = "!"  -> <<"2","1">>
      [] c = "\"" -> <<"2","2">>
      [] c = "#"  -> <<"2","3">>
      [] c = "$"  -> <<"2","4">>
      [] c = "%"  -> <<"2","5">>
      [] c = "&"  -> <<"2","6">>
      [] c = "'"  -> <<"2","7">>
      [] c = "("  -> <<"2","8">>
      [] c = ")"  -> <<"2","9">>
      [] c = "*"  -> <<"2","A">>
      [] c = "+"  -> <<"2","B">>
      [] c = ","  -> <<"2","C">>
      [] c = "/"  -> <<"2","F">>
      [] c = ":"  -> <<"3","A">>
      [] c = ";"  -> <<"3","B">>
      [] c = "<"  -> <<"3","C">>
      [] c = "="  -> <<"3","D">>
      [] c = ">"  -> <<"3","E">>
      [] c = "?"  -> <<"3","F">>
      [] c = "@"  -> <<"4","0">>
      [] c = "["  -> <<"5","B">>
      [] c = "]"  -> <<"5","D">>
      [] c = "\t" -> <<"0","9">>
      [] c = "\n" -> <<"0","A">>
      [] c = "\r" -> <<"0","D">>

\* urllib.parse.quote(string, safe): every character outside the always-safe
\* set and `safe` becomes % and its two hexadecimal digits
quote(string, safe) ==
    Bind(string, LAMBDA str :
        Concat([i \in 1..Len(str) |->
                  IF str[i] \in AlwaysSafe \cup safe
                  THEN <<str[i]>>
                  ELSE <<"%">> \o HexOf(str[i])]))

\* urllib.parse.quote_plus(string, safe)
quote_plus(string, safe) ==
    Bind(string, LAMBDA str :
        IF ~Contains(str, " ")
        THEN quote(str, safe)
        ELSE Bind(quote(str, safe \cup {" "}), LAMBDA q :
                 [i \in 1..Len(q) |-> IF q[i] = " " THEN "+" ELSE q[i]]))

\* the 1-based place of the ':' that ends the scheme of u, 0 when u has no
\* scheme: `i > 0 and url[0].isascii() and url[0].isalpha()` and every
\* character before the ':' in scheme_chars
SchemeEnd(u) ==
    LET i == Find(u, ":", 1)
    IN  IF /\ i > 1
           /\ u[1] \in Letters
           /\ \A k \in 1..(i - 1) : u[k] \in scheme_chars
        THEN i ELSE 0

\* urllib.parse._splitnetloc(url, 2), 1-based: the end of the domain part
NetlocEnd(u) ==
    LET ds == {Find(u, c, 3) : c \in {"/", "?", "#"}} \ {0}
    IN  IF ds = {} THEN Len(u) + 1
        ELSE CHOOSE d \in ds : \A e \in ds : d <= e

\* urllib.parse.urlsplit(url)
urlsplit(raw) ==
    Bind(SelectSeq(LStrip(raw, C0ControlOrSpace),
                   LAMBDA c : c \notin UnsafeUrlBytes), LAMBDA u2 :
    Bind(SchemeEnd(u2), LAMBDA i :
    Bind(IF i > 0 THEN From(u2, i + 1) ELSE u2, LAMBDA u3 :
    Bind(IF Take(u3, 2) = <<"/", "/">> THEN NetlocEnd(u3) ELSE 0, LAMBDA d :
    Bind(IF d > 0 THEN From(u3, d) ELSE u3, LAMBDA u4 :
    Bind(Find(u4, "#", 1), LAMBDA h :
    Bind(IF h > 0 THEN SubSeq(u4, 1, h - 1) ELSE u4, LAMBDA u5 :
    Bind(Find(u5, "?", 1), LAMBDA q :
        [scheme |-> IF i > 0 THEN Lower(SubSeq(u2, 1, i - 1)) ELSE <<>>,
         netloc |-> IF d > 0 THEN SubSeq(u3, 3, d - 1) ELSE <<>>,
         path |-> IF q > 0 THEN SubSeq(u5, 1, q - 1) ELSE u5,
         query |-> IF q > 0 THEN From(u5, q + 1) ELSE <<>>,
         fragment |-> IF h > 0 THEN From(u4, h + 1) ELSE <<>>]))))))))

\* urllib.parse._splitparams(url): the 1-based place of the ';' that starts
\* the params, 0 when the last path segment has none
ParamsAt(path) ==
    IF Contains(path, "/") THEN Find(path, ";", RFind(path, "/"))
    ELSE Find(path, ";", 1)

\* urllib.parse.urlparse(url)
urlparse(raw) ==
    Bind(urlsplit(raw), LAMBDA sp :
    Bind(IF sp.scheme \in uses_params /\ Contains(sp.path, ";")
         THEN ParamsAt(sp.path) ELSE 0, LAMBDA p :
        [scheme |-> sp.scheme, netloc |-> sp.netloc,
         path |-> IF p > 0 THEN SubSeq(sp.path, 1, p - 1) ELSE sp.path,
         params |-> IF p > 0 THEN From(sp.path, p + 1) ELSE <<>>,
         query |-> sp.query, fragment |-> sp.fragment]))

\* urllib.parse.urlunsplit((scheme, netloc, url, query, fragment))
urlunsplit(scheme, netloc, path, query, fragment) ==
    Bind(<<scheme, netloc, path, query, fragment>>, LAMBDA c :
    Bind(\/ c[2] # <<>>
         \/ (c[1] # <<>> /\ c[1] \in uses_netloc
             /\ Take(c[3], 2) # <<"/", "/">>), LAMBDA withNetloc :
    Bind(IF withNetloc /\ c[3] # <<>> /\ Head(c[3]) # "/"
         THEN <<"/">> \o c[3] ELSE c[3], LAMBDA p1 :
        (IF c[1] # <<>> THEN c[1] \o <<":">> ELSE <<>>)
        \o (IF withNetloc THEN <<"/", "/">> \o c[2] \o p1 ELSE c[3])
        \o (IF c[4] # <<>> THEN <<"?">> \o c[4] ELSE <<>>)
        \o (IF c[5] # <<>> THEN <<"#">> \o c[5] ELSE <<>>))))

\* urllib.parse.urlunparse(components)
urlunparse(scheme, netloc, path, params, query, fragment) ==
    urlunsplit(scheme, netloc,
               Bind(params, LAMBDA ps :
                   IF ps # <<>> THEN path \o <<";">> \o ps ELSE path),
               query, fragment)

\* quote()'s default safe argument, used for the path and the fragment
PathSafe == {"/"}

\* safe='=&' of the quote_plus call on the query
QuerySafe_none == {}
QuerySafe == {"=", "&"}

\* the value set_url(raw) stores in self.url
set_url(raw) ==
    Bind(urlparse(raw), LAMBDA parsed_url :
        urlunparse(parsed_url.scheme,
                   parsed_url.netloc,
                   quote(parsed_url.path, PathSafe),
                   parsed_url.params,
                   quote_plus(parsed_url.query, QuerySafe),
                   quote(parsed_url.fragment, PathSafe)))

-----------------------------------------------------------------------------
(* The text summarize() hands to summarize_text.                           *)

\* words[:number_of_words]
first_words_off_by_one(words) == Take(words, number_of_words + 1)
first_words(words) == Take(words, number_of_words)

\* .replace("'", "").replace('"', '')
remove_quotes_single(s) == Remove(s, "'")
remove_quotes(s) == Remove(Remove(s, "'"), "\"")

\* reduced_content of summarize(), from stripped_text
reduce_content(text) == remove_quotes(Join(first_words(Split(text))))

-----------------------------------------------------------------------------
(* The environment.                                                        *)

\* str(e) of the exceptions the environment raises
ExcMessages == {<<>>, <<"x">>}

\* the exceptions a driver call and a completion-API call can raise; all
\* derive from Exception
DriverErrors == {[cls |-> "WebDriverException", msg |-> m] : m \in ExcMessages}
ApiErrors == {[cls |-> "APIError", msg |-> m] : m \in ExcMessages}

\* response.choices[0].message.content as the API can return it
RawResponses == {<<"G">>, <<" ", "G", "\n">>, <<"\n", "S", " ", "S", " ">>}

\* what strip_html_tags can return: text nodes stripped and joined by " ",
\* so no whitespace at either end
IsStripped(t) ==
    t = <<>> \/ (Head(t) \notin Whitespace /\ t[Len(t)] \notin Whitespace)

TextChars == {"a", " ", "\n", "'", "\""}
StrippedTexts == {t \in Strings(TextChars, MaxTextLen) : IsStripped(t)}

\* the raw URLs set_url is applied to: an optional scheme, an optional
\* authority, a path, an optional query and an optional fragment
Schemes == {<<>>, <<"h","t","t","p",":">>, <<"H","T","T","P",":">>}
Authorities == {<<>>, <<"/","/","x">>, <<"/","/">>}
PathChars == {"a", " ", "%", "/", ";"}
QueryChars == {"a", "=", "&", " ", "+"}
Fragments == {<<>>, <<"#"," ">>, <<"#","%">>}
Paths == Strings(PathChars, MaxPathLen) \cup {<<"/","/","a">>}
Queries == {<<>>} \cup {<<"?">> \o q : q \in Strings(QueryChars, MaxQueryLen)}
RawUrls ==
    {sc \o au \o pa \o qu \o fr :
        sc \in Schemes, au \in Authorities,
        pa \in Paths, qu \in Queries,
        fr \in Fragments}

\* the page texts and the raw URLs of the life-cycle specification
LifecycleTexts == {<<"a">>, <<"a", " ", "'", " ", "b", "\n", "c">>}
LifecycleUrls == {<<>>, <<"h","t","t","p",":","/","/","x","/","a"," ","b">>}

-----------------------------------------------------------------------------
(* Outcomes and logs.                                                      *)

NoOutcome == [raised |-> FALSE, value |-> None]
Returned(v) == [raised |-> FALSE, value |-> v]
Propagated(e) == [raised |-> TRUE, value |-> e.msg]

ErrorPrefix == <<"E","r","r","o","r",":"," ">>
NoUrlMessage ==
    <<"E","r","r","o","r",":"," ","N","o"," ","U","R","L"," ",
      "p","r","o","v","i","d","e","d">>

Event(op, ok, session, msg) ==
    [op |-> op, ok |-> ok, session |-> session, msg |-> msg]

urlVars == <<url, arg, renormalized>>
sessionVars == <<driver, nextSession, quitCalls>>
textVars == <<stripped_text, reduced_content, language>>

-----------------------------------------------------------------------------
(* ScraperSummarizer.                                                      *)

\* __init__: no driver, no URL
Init ==
    /\ url = None
    /\ arg = None
    /\ renormalized = 0
    /\ driver = NoDriver
    /\ nextSession = 0
    /\ quitCalls = [s \in 1..MaxSessions |-> 0]
    /\ pc = "idle"
    /\ call = "__init__"
    /\ entryDriver = NoDriver
    /\ retval = NoOutcome
    /\ result = NoOutcome
    /\ events = <<>>
    /\ apiCalls = <<>>
    /\ stripped_text = <<>>
    /\ reduced_content = <<>>
    /\ language = <<>>
    /\ summary = None

\* the caller calls set_url(u) for a raw URL u of U
CallSetUrl(U) ==
    /\ pc = "idle"
    /\ pc' = "set_url"
    /\ call' = "set_url"
    /\ \E u \in U : arg' = u
    /\ renormalized' = 0
    /\ UNCHANGED <<url, sessionVars, entryDriver, retval, result, events,
                   apiCalls, textVars, summary>>

\* the caller calls set_url(get_url()): the stored URL is normalized again
Renormalize ==
    /\ pc = "idle"
    /\ url # None
    /\ renormalized < MaxRenormalize
    /\ pc' = "set_url"
    /\ call' = "set_url"
    /\ arg' = url
    /\ renormalized' = renormalized + 1
    /\ UNCHANGED <<url, sessionVars, entryDriver, retval, result, events,
                   apiCalls, textVars, summary>>

\* set_url(url): self.url = safe_url
SetUrl ==
    /\ pc = "set_url"
    /\ url' = set_url(arg)
    /\ pc' = "idle"
    /\ UNCHANGED <<arg, renormalized, sessionVars, call, entryDriver, retval,
                   result, events, apiCalls, textVars, summary>>

\* `if self.url:`
Truthy_notNone(u) == u # None
Truthy(u) == u # None /\ u # <<>>

\* `if self.driver is not None:` of init_driver
DriverHeld_never == FALSE
DriverHeld == driver # NoDriver

\* `except Exception as e:` of summarize
HandlerCatches_driverOnly(e) == e.cls = "WebDriverException"
HandlerCatches(e) == e.cls \in {"WebDriverException", "APIError"}

\* the statement that follows a statement of the try block which returned
Successor_scrollFirst(step) ==
    CASE step = "Driver" -> "set_page_load_timeout"
      [] step = "set_page_load_timeout" -> "set_script_timeout"
      [] step = "set_script_timeout" -> "implicitly_wait"
      [] step = "implicitly_wait" -> "execute_cdp_cmd"
      [] step = "init_driver" -> "execute_script"
      [] step = "execute_script" -> "get"
      [] step = "get" -> "page_source"
      [] step = "page_source" -> "detect_language"
      [] step = "detect_language" -> "create_summary"
      [] step = "create_summary" -> "close"
Successor(step) ==
    CASE step = "Driver" -> "set_page_load_timeout"
      [] step = "set_page_load_timeout" -> "set_script_timeout"
      [] step = "set_script_timeout" -> "implicitly_wait"
      [] step = "implicitly_wait" -> "execute_cdp_cmd"
      [] step = "init_driver" -> "get"
      [] step = "get" -> "execute_script"
      [] step = "execute_script" -> "page_source"
      [] step = "page_source" -> "detect_language"
      [] step = "detect_language" -> "create_summary"
      [] step = "create_summary" -> "close"

\* an exception e leaves the statement at pc.  Inside summarize() the handler
\* turns it into the return value and the finally clause runs; init_driver()
\* called on its own logs it and raises it to its caller.
Raise(e) ==
    IF call = "summarize"
    THEN /\ pc' = "close"
         /\ retval' = IF HandlerCatches(e) THEN Returned(ErrorPrefix \o e.msg)
                      ELSE Propagated(e)
         /\ UNCHANGED result
    ELSE /\ pc' = "idle"
         /\ result' = Propagated(e)
         /\ UNCHANGED retval

\* init_driver() returns self.driver
InitDriverReturn ==
    /\ pc' = IF call = "summarize" THEN Successor("init_driver") ELSE "idle"
    /\ UNCHANGED <<retval, result>>

\* the caller calls summarize()
CallSummarize ==
    /\ pc = "idle"
    /\ pc' = "summarize"
    /\ call' = "summarize"
    /\ entryDriver' = driver
    /\ retval' = NoOutcome
    /\ result' = NoOutcome
    /\ events' = <<>>
    /\ apiCalls' = <<>>
    /\ stripped_text' = <<>>
    /\ reduced_content' = <<>>
    /\ language' = <<>>
    /\ UNCHANGED <<urlVars, sessionVars, summary>>

\* summarize(): `if self.url:` ... `else: return "Error: No URL provided"`
SummarizeEntry ==
    /\ pc = "summarize"
    /\ IF Truthy(url)
       THEN pc' = "init_driver" /\ UNCHANGED result
       ELSE pc' = "idle" /\ result' = Returned(NoUrlMessage)
    /\ UNCHANGED <<urlVars, sessionVars, call, entryDriver, retval, events,
                   apiCalls, textVars, summary>>

\* the caller calls init_driver()
CallInitDriver ==
    /\ pc = "idle"
    /\ pc' = "init_driver"
    /\ call' = "init_driver"
    /\ result' = NoOutcome
    /\ events' = <<>>
    /\ UNCHANGED <<urlVars, sessionVars, entryDriver, retval, apiCalls,
                   textVars, summary>>

\* init_driver(): an existing driver is returned, none is created
InitDriverEntry ==
    /\ pc = "init_driver"
    /\ IF DriverHeld
       THEN InitDriverReturn
       ELSE pc' = "Driver" /\ UNCHANGED <<retval, result>>
    /\ UNCHANGED <<urlVars, sessionVars, call, entryDriver, events, apiCalls,
                   textVars, summary>>

\* self.driver = Driver(**driver_options)
CreateDriver ==
    /\ pc = "Driver"
    /\ \/ /\ nextSession < MaxSessions
          /\ nextSession' = nextSession + 1
          /\ driver' = nextSession + 1
          /\ events' = Append(events, Event("Driver", TRUE, nextSession + 1, <<>>))
          /\ pc' = Successor("Driver")
          /\ UNCHANGED <<retval, result>>
       \/ \E e \in DriverErrors :
            /\ events' = Append(events, Event("Driver", FALSE, NoDriver, e.msg))
            /\ Raise(e)
            /\ UNCHANGED <<driver, nextSession>>
    /\ UNCHANGED <<urlVars, quitCalls, call, entryDriver, apiCalls, textVars,
                   summary>>

\* the driver calls whose exception ends the try block: the three timeout
\* settings of init_driver, driver.get(self.url) and the scroll script
DriverSteps == {"set_page_load_timeout", "set_script_timeout",
                "implicitly_wait", "get", "execute_script"}

DriverStep ==
    /\ pc \in DriverSteps
    /\ \/ /\ events' = Append(events, Event(pc, TRUE, driver, <<>>))
          /\ pc' = Successor(pc)
          /\ UNCHANGED <<retval, result>>
       \/ \E e \in DriverErrors :
            /\ events' = Append(events, Event(pc, FALSE, driver, e.msg))
            /\ Raise(e)
    /\ UNCHANGED <<urlVars, sessionVars, call, entryDriver, apiCalls,
                   textVars, summary>>

\* self.driver.execute_cdp_cmd("Network.enable", {}): a failure is logged
\* and init_driver returns the driver all the same
EnableNetwork ==
    /\ pc = "execute_cdp_cmd"
    /\ \/ events' = Append(events, Event(pc, TRUE, driver, <<>>))
       \/ \E e \in DriverErrors :
            events' = Append(events, Event(pc, FALSE, driver, e.msg))
    /\ InitDriverReturn
    /\ UNCHANGED <<urlVars, sessionVars, call, entryDriver, apiCalls,
                   textVars, summary>>

\* stripped_text = strip_html_tags(self.driver.page_source), for a page whose
\* text is in T, and the reduction of it to reduced_content
PageSource(T) ==
    /\ pc = "page_source"
    /\ \/ \E t \in T :
            /\ events' = Append(events, Event(pc, TRUE, driver, <<>>))
            /\ stripped_text' = t
            /\ reduced_content' = reduce_content(t)
            /\ pc' = Successor(pc)
            /\ UNCHANGED <<retval, result>>
       \/ \E e \in DriverErrors :
            /\ events' = Append(events, Event(pc, FALSE, driver, e.msg))
            /\ Raise(e)
            /\ UNCHANGED <<stripped_text, reduced_content>>
    /\ UNCHANGED <<urlVars, sessionVars, call, entryDriver, apiCalls,
                   language, summary>>

-----------------------------------------------------------------------------
(* summarize_text.                                                         *)

\* the max_tokens of the two get_response calls
detect_language_tokens == 100
create_summary_tokens == 1024

\* the prompt of detect_language(text): the template and what it embeds
detect_language_prompt(text) ==
    [template |-> "detect_language", text |-> text, language |-> None]

\* the prompt of create_summary(text, language)
create_summary_prompt(text, lang) ==
    [template |-> "create_summary", text |-> text, language |-> lang]

\* get_response: response.choices[0].message.content.strip()
get_response(raw) == Strip(raw)

\* a request to client.chat.completions.create and what it returned
Request(prompt, tokens, ok, raw) ==
    [max_tokens |-> tokens, prompt |-> prompt, ok |-> ok, response |-> raw]

\* `return summary` of summarize_text
summarize_text_result_both(lang, summ) == lang \o <<"\n">> \o summ
summarize_text_result(lang, summ) == summ

\* language = detect_language(text)
DetectLanguage ==
    /\ pc = "detect_language"
    /\ LET prompt == detect_language_prompt(reduced_content)
       IN  \/ \E raw \in RawResponses :
                /\ apiCalls' = Append(apiCalls,
                       Request(prompt, detect_language_tokens, TRUE, raw))
                /\ events' = Append(events, Event(pc, TRUE, driver, <<>>))
                /\ language' = Strip(get_response(raw))
                /\ pc' = Successor(pc)
                /\ UNCHANGED <<retval, result>>
           \/ \E e \in ApiErrors :
                /\ apiCalls' = Append(apiCalls,
                       Request(prompt, detect_language_tokens, FALSE, <<>>))
                /\ events' = Append(events, Event(pc, FALSE, driver, e.msg))
                /\ Raise(e)
                /\ UNCHANGED language
    /\ UNCHANGED <<urlVars, sessionVars, call, entryDriver, stripped_text,
                   reduced_content, summary>>

\* summary = create_summary(text, language); self.summary is set and returned
CreateSummary ==
    /\ pc = "create_summary"
    /\ LET prompt == create_summary_prompt(reduced_content, language)
       IN  \/ \E raw \in RawResponses :
                /\ apiCalls' = Append(apiCalls,
                       Request(prompt, create_summary_tokens, TRUE, raw))
                /\ events' = Append(events, Event(pc, TRUE, driver, <<>>))
                /\ summary' = summarize_text_result(language,
                                                    Strip(get_response(raw)))
                /\ retval' = Returned(summary')
                /\ pc' = Successor(pc)
                /\ UNCHANGED result
           \/ \E e \in ApiErrors :
                /\ apiCalls' = Append(apiCalls,
                       Request(prompt, create_summary_tokens, FALSE, <<>>))
                /\ events' = Append(events, Event(pc, FALSE, driver, e.msg))
                /\ Raise(e)
                /\ UNCHANGED summary
    /\ UNCHANGED <<urlVars, sessionVars, call, entryDriver, textVars>>

-----------------------------------------------------------------------------
(* close.                                                                  *)

\* self.driver after close() called quit(): the finally clause clears it
DriverAfterQuit_noFinally(quit_ok) == IF quit_ok THEN NoDriver ELSE driver
DriverAfterQuit(quit_ok) == NoDriver

\* the caller calls close()
CallClose ==
    /\ pc = "idle"
    /\ pc' = "close"
    /\ call' = "close"
    /\ result' = NoOutcome
    /\ events' = <<>>
    /\ UNCHANGED <<urlVars, sessionVars, entryDriver, retval, apiCalls,
                   textVars, summary>>

\* close(), called by the caller or by the finally clause of summarize();
\* after it summarize() returns, or raises, what the try block left pending
Close ==
    /\ pc = "close"
    /\ IF driver # NoDriver
       THEN \/ /\ events' = events \o <<Event("close", TRUE, driver, <<>>),
                                        Event("quit", TRUE, driver, <<>>)>>
               /\ quitCalls' = [quitCalls EXCEPT ![driver] = @ + 1]
               /\ driver' = DriverAfterQuit(TRUE)
            \/ \E e \in DriverErrors :
               /\ events' = events \o <<Event("close", TRUE, driver, <<>>),
                                        Event("quit", FALSE, driver, e.msg)>>
               /\ quitCalls' = [quitCalls EXCEPT ![driver] = @ + 1]
               /\ driver' = DriverAfterQuit(FALSE)
       ELSE /\ events' = Append(events, Event("close", TRUE, driver, <<>>))
            /\ UNCHANGED <<driver, quitCalls>>
    /\ pc' = "idle"
    /\ result' = IF call = "summarize" THEN retval ELSE NoOutcome
    /\ UNCHANGED <<urlVars, nextSession, call, entryDriver, retval, apiCalls,
                   textVars, summary>>

-----------------------------------------------------------------------------
(* Specifications.                                                         *)

\* the calls a caller such as main() makes on one instance, in any order
Next ==
    \/ CallSetUrl(LifecycleUrls)
    \/ SetUrl
    \/ CallSummarize
    \/ SummarizeEntry
    \/ CallInitDriver
    \/ InitDriverEntry
    \/ CreateDriver
    \/ DriverStep
    \/ EnableNetwork
    \/ PageSource(LifecycleTexts)
    \/ DetectLanguage
    \/ CreateSummary
    \/ CallClose
    \/ Close

Spec == Init /\ [][Next]_vars

\* set_url applied to every raw URL, and again to its own result
InitUrl ==
    /\ arg \in RawUrls
    /\ pc = "set_url"
    /\ call = "set_url"
    /\ url = None
    /\ renormalized = 0
    /\ driver = NoDriver
    /\ nextSession = 0
    /\ quitCalls = [s \in 1..MaxSessions |-> 0]
    /\ entryDriver = NoDriver
    /\ retval = NoOutcome
    /\ result = NoOutcome
    /\ events = <<>>
    /\ apiCalls = <<>>
    /\ stripped_text = <<>>
    /\ reduced_content = <<>>
    /\ language = <<>>
    /\ summary = None

NextUrl == SetUrl \/ Renormalize

SpecUrl == InitUrl /\ [][NextUrl]_vars

\* the page text of every page: summarize() as main() runs it, from the
\* retrieval of the page source on
MainUrl == <<"h","t","t","p",":","/","/","x","/","a"," ","b">>
MainSteps == <<"Driver", "set_page_load_timeout", "set_script_timeout",
               "implicitly_wait", "execute_cdp_cmd", "get", "execute_script">>

InitText ==
    /\ arg = MainUrl
    /\ url = set_url(MainUrl)
    /\ renormalized = 0
    /\ driver = 1
    /\ nextSession = 1
    /\ quitCalls = [s \in 1..MaxSessions |-> 0]
    /\ pc = "page_source"
    /\ call = "summarize"
    /\ entryDriver = NoDriver
    /\ retval = NoOutcome
    /\ result = NoOutcome
    /\ events = [i \in 1..Len(MainSteps) |-> Event(MainSteps[i], TRUE, 1, <<>>)]
    /\ apiCalls = <<>>
    /\ stripped_text = <<>>
    /\ reduced_content = <<>>
    /\ language = <<>>
    /\ summary = None

NextText ==
    \/ PageSource(StrippedTexts)
    \/ DetectLanguage
    \/ CreateSummary

SpecText == InitText /\ [][NextText]_vars

-----------------------------------------------------------------------------
(* Properties.                                                             *)

\* summarize() has returned to its caller, and self.url is as it was
SummarizeReturned == pc = "idle" /\ call = "summarize"

UrlSet == url # None /\ url # <<>>

\* the places of the events of the call with the given operations
EventsOf(ops) == {i \in 1..Len(events) : events[i].op \in ops}

\* the sessions Driver() created during the call
CreatedInCall == {events[i].session : i \in {j \in EventsOf({"Driver"}) : events[j].ok}}

\* the calls whose exception ends the try block of summarize()
TryOps == {"Driver", "set_page_load_timeout", "set_script_timeout",
           "implicitly_wait", "get", "execute_script", "page_source",
           "detect_language", "create_summary"}

FailedInTry == {i \in EventsOf(TryOps) : ~events[i].ok}

\* C1: when summarize() returns with a URL set, self.driver is None and quit()
\* has been invoked on every session created during the call, whichever step
\* failed, quit() included.
C1_SessionReleased ==
    (SummarizeReturned /\ UrlSet) =>
        /\ driver = NoDriver
        /\ \A s \in CreatedInCall : quitCalls[s] >= 1

\* C1 witness: a session was created during the call, a later step failed and
\* quit() itself raised.
C1_Witness ==
    /\ SummarizeReturned /\ UrlSet
    /\ CreatedInCall # {}
    /\ FailedInTry # {}
    /\ \E i \in EventsOf({"quit"}) : ~events[i].ok

C3_NoUrl ==
    [][(pc = "summarize" /\ (url = None \/ url = <<>>)) =>
          /\ pc' = "idle"
          /\ result' = [raised |-> FALSE, value |-> NoUrlMessage]
          /\ driver' = driver
          /\ nextSession' = nextSession
          /\ quitCalls' = quitCalls
          /\ events = <<>> /\ events' = <<>>
          /\ apiCalls = <<>> /\ apiCalls' = <<>>]_vars

\* C3 witness: summarize() returned the no-URL error for an empty URL while a
\* session opened by an earlier init_driver() was held, and still is.
C3_Witness ==
    /\ SummarizeReturned
    /\ url = <<>>
    /\ result = [raised |-> FALSE, value |-> NoUrlMessage]
    /\ driver # NoDriver
    /\ quitCalls[driver] = 0

\* summarize_text has just returned its summary
SummarizeTextSucceeded ==
    /\ pc = "close"
    /\ call = "summarize"
    /\ events # <<>>
    /\ events[Len(events)].op = "create_summary"
    /\ events[Len(events)].ok

C5_Idempotent ==
    (pc = "idle" /\ call = "set_url" /\ renormalized > 0) => url = arg

-----------------------------------------------------------------------------
(* The query, scheme and authority of a URL, for C6.                       *)

Separators == {"=", "&"}

\* the '=' and '&' of a query, in order
SeparatorsOf(q) == SelectSeq(q, LAMBDA c : c \in Separators)

\* the k-th stretch of q between separators (k from 1)
RECURSIVE SegmentFrom(_, _)
SegmentFrom(q, k) ==
    LET seps == {i \in 1..Len(q) : q[i] \in Separators}
        first == IF seps = {} THEN Len(q) + 1
                 ELSE CHOOSE i \in seps : \A j \in seps : i <= j
    IN  IF k = 1 THEN SubSeq(q, 1, first - 1)
        ELSE SegmentFrom(From(q, first + 1), k - 1)

Count(q, c) == Cardinality({i \in 1..Len(q) : q[i] = c})

\* the number of places of q where the string p starts
Occurrences(q, p) ==
    Cardinality({i \in 1..(Len(q) - Len(p) + 1) : SubSeq(q, i, i + Len(p) - 1) = p})

\* the scheme of a raw URL as it is written, before any change of case
WrittenScheme(raw) ==
    LET u == SelectSeq(LStrip(raw, C0ControlOrSpace),
                       LAMBDA c : c \notin UnsafeUrlBytes)
        i == SchemeEnd(u)
    IN  IF i > 0 THEN SubSeq(u, 1, i - 1) ELSE <<>>

\* set_url has just stored the normal form of the raw URL arg
Normalized == pc = "idle" /\ call = "set_url" /\ renormalized = 0

\* the '=' and '&' of the query are kept, in place, and the k-th stretch
\* between them holds one `space` for each literal space of the raw stretch
QueryKept(space) ==
    LET inq == urlsplit(arg).query
        outq == urlsplit(url).query
    IN  /\ SeparatorsOf(outq) = SeparatorsOf(inq)
        /\ \A k \in 1..(Len(SeparatorsOf(inq)) + 1) :
              /\ Count(SegmentFrom(outq, k), " ") = 0
              /\ Occurrences(SegmentFrom(outq, k), space)
                    = Count(SegmentFrom(inq, k), " ")

-----------------------------------------------------------------------------
(* The text handed to summarize_text, for C7 and C8.                       *)

\* summarize() has computed reduced_content and is about to call
\* summarize_text(reduced_content)
TextHanded == pc = "detect_language" /\ call = "summarize"

QuoteChars == {"'", "\""}
WithoutQuotes(w) == SelectSeq(w, LAMBDA c : c \notin QuoteChars)

\* the first number_of_words words of the tag-stripped text
FirstWords ==
    LET ws == Split(stripped_text)
    IN  SubSeq(ws, 1, Min(Len(ws), number_of_words))

HasQuote(t) == \E i \in 1..Len(t) : t[i] \in QuoteChars

\* C8: the text handed to summarize_text, and so the text of both prompts,
\* holds neither ' nor ".
C8_NoQuotes ==
    /\ ~HasQuote(reduced_content)
    /\ \A i \in 1..Len(apiCalls) : ~HasQuote(apiCalls[i].prompt.text)

\* C8 witness: both prompts were sent for a page whose first words hold a
\* single and a double quote.
C8_Witness ==
    /\ Len(apiCalls) = 2
    /\ Count(Join(FirstWords), "'") > 0
    /\ Count(Join(FirstWords), "\"") > 0

-----------------------------------------------------------------------------
(* The order of the external calls, for C9, and the sessions, for C10.     *)

\* the order in which the code of summarize() makes its external calls
StepOrder == <<"Driver", "set_page_load_timeout", "set_script_timeout",
               "implicitly_wait", "execute_cdp_cmd", "get", "execute_script",
               "page_source", "detect_language", "create_summary", "close",
               "quit">>

Rank(op) == CHOOSE r \in 1..Len(StepOrder) : StepOrder[r] = op

Occurred(op) == EventsOf({op}) # {}

\* C9: during summarize() with a URL set the external calls happen in the
\* order session creation, navigation, scroll script, page source, language
\* call, summary call, close; each only after every earlier one succeeded; no
\* API call without the page source, no summary call without the language; and
\* close comes last, so the session is open during both API calls.
C9_Order ==
    (call = "summarize" /\ UrlSet) =>
        /\ \A i, j \in 1..Len(events) :
              i < j => Rank(events[i].op) < Rank(events[j].op)
        /\ \A i, j \in 1..Len(events) :
              (i < j /\ events[j].op \notin {"close", "quit"})
                  => (events[i].ok \/ events[i].op = "execute_cdp_cmd")
        /\ Occurred("get") => (Occurred("Driver") \/ entryDriver # NoDriver)
        /\ Occurred("execute_script") => Occurred("get")
        /\ Occurred("page_source") => Occurred("execute_script")
        /\ Occurred("detect_language") => Occurred("page_source")
        /\ Occurred("create_summary") => Occurred("detect_language")
        /\ Len(apiCalls)
              = Cardinality(EventsOf({"detect_language", "create_summary"}))
        /\ \A i \in EventsOf({"detect_language", "create_summary"}) :
              /\ events[i].session # NoDriver
              /\ ~Occurred("quit") => /\ driver = events[i].session
                                      /\ quitCalls[driver] = 0
        /\ pc = "idle" => /\ Occurred("close")
                          /\ events[Len(events)].op \in {"close", "quit"}

\* C9 witness: summarize() ran every step, from Driver() to quit(), and
\* returned.
C9_Witness ==
    /\ SummarizeReturned /\ UrlSet
    /\ Len(events) = Len(StepOrder)

\* the sessions created on which quit() was never invoked
Live == {s \in 1..nextSession : quitCalls[s] = 0}

\* C10: over any sequence of init_driver(), summarize() and close() calls at
\* most one session is live and it is the one held; quit() is invoked at most
\* once on a session; init_driver() with a session held creates none; close()
\* with none held does nothing; close() clears the handle even if quit()
\* raises.
C10_OneSession ==
    [][/\ Live' = IF driver' = NoDriver THEN {} ELSE {driver'}
       /\ \A s \in 1..MaxSessions : quitCalls'[s] <= 1
       /\ (pc = "init_driver" /\ driver # NoDriver) =>
              /\ driver' = driver
              /\ nextSession' = nextSession
              /\ pc' # "Driver"
       /\ (pc = "close" /\ driver = NoDriver) =>
              /\ driver' = NoDriver
              /\ quitCalls' = quitCalls
       /\ pc = "close" => driver' = NoDriver]_vars

\* C10 witness: a close() with no session held, after an earlier call had
\* created a session and invoked quit() on it.
C10_Witness ==
    /\ pc = "idle"
    /\ call = "close"
    /\ events = <<Event("close", TRUE, NoDriver, <<>>)>>
    /\ driver = NoDriver
    /\ nextSession >= 1
    /\ quitCalls[1] = 1

=============================================================================
